---------------------------- MODULE Spec2Model ----------------------------
(***************************************************************************)
(* Bot-graph expansion crawl of app/pipeline/channels/scraping.py:         *)
(* expand_bot_graph_async with its two per-item processors, the            *)
(* subscription pass, the Firestore collections "channel",                 *)
(* "channel_pending" and "channel_links", and the write batch of one item. *)
(***************************************************************************)
EXTENDS Integers, Sequences, FiniteSets, Bags, TLC

(***************************************************************************)
(* Identifiers are strings; they are modelled as tuples of characters so   *)
(* that str.startswith("UC") is computed, not assumed.                     *)
(***************************************************************************)
UC1 == <<"U", "C", "1">>
UC2 == <<"U", "C", "2">>
H1  == <<"h", "1">>

Ids == {UC1, UC2, H1}

\* Longest seed list passed to expand_bot_graph_async.
MaxSeeds == 2

\* Python None, for the optional string fields of a document.
NoneV == "None"
\* A gs:// URI returned by an upload.
GsUri == "gs"

\* identifier.startswith("UC")
StartsWithUC(s) == Len(s) >= 2 /\ s[1] = "U" /\ s[2] = "C"

\* The channel a handle belongs to on the platform (what channels().list
\* forHandle / the search fallback returns when the API answers).
Owner(h) == IF h = H1 THEN UC1 ELSE h

\* get_channel_url(identifier): the path of the URL, as prefix and text.
GetChannelUrl(ident) ==
    IF StartsWithUC(ident) THEN [prefix |-> "/channel/", rest |-> ident]
    ELSE [prefix |-> "/@", rest |-> ident]

\* fetch_channel_item: the id of the item the API returns, or NoneV when it
\* returns no item (no such channel, or the call raised and was caught).
FetchChannelItem(ident, apiOk) ==
    IF ~apiOk THEN NoneV
    ELSE IF StartsWithUC(ident) THEN ident
    ELSE Owner(ident)

\* resolve_handle_to_id(youtube, handle)
ResolveHandleToId(h, apiOk) == FetchChannelItem(h, apiOk)

(***************************************************************************)
(* Tiles of a rendered page: the href of a channel tile is "/@<text>" or   *)
(* "/channel/<text>".                                                      *)
(***************************************************************************)
TileOrder == << [prefix |-> "/channel/", rest |-> UC1],
                [prefix |-> "/channel/", rest |-> UC2],
                [prefix |-> "/@",        rest |-> H1],
                \* the handle whose text is "UC2"
                [prefix |-> "/@",        rest |-> UC2] >>

Tiles == {TileOrder[i] : i \in 1..Len(TileOrder)}

\* href[2:] for a handle link, href.split("/channel/")[1] for a channel link
TileToId(t) == t.rest

\* The list a scrape returns for the set S of tiles the page shows.
ScrapedList(S) ==
    LET shown == SelectSeq(TileOrder, LAMBDA t : t \in S)
    IN  [i \in 1..Len(shown) |-> TileToId(shown[i])]

Range(s) == {s[i] : i \in 1..Len(s)}

(***************************************************************************)
(* Documents.  A collection is a function from the ids that have a         *)
(* document to the document; a document is a record.                       *)
(***************************************************************************)
Put(coll, k, doc) ==
    [x \in DOMAIN coll \cup {k} |-> IF x = k THEN doc ELSE coll[x]]

\* DocumentReference.set(data, merge=True)
Merge(old, new) ==
    [f \in DOMAIN old \cup DOMAIN new |->
        IF f \in DOMAIN new THEN new[f] ELSE old[f]]

PutMerge(coll, k, doc) ==
    IF k \in DOMAIN coll THEN Put(coll, k, Merge(coll[k], doc))
    ELSE Put(coll, k, doc)

EmptyColl == [x \in {} |-> TRUE]

\* Labels written by a human reviewer.
ManualTypes == {"manual", "manual_bulk"}

\* A channel document after review_docs labelled it.
ReviewedDoc(label, kind) ==
    [ is_bot |-> label, is_bot_check_type |-> kind, is_bot_checked |-> TRUE,
      screenshot_gcs_uri |-> GsUri, avatar_gcs_uri |-> GsUri,
      banner_gcs_uri |-> NoneV, is_metadata_missing |-> FALSE ]

\* Contents of the "channel" collection when a crawl starts.
ExistingStores ==
    { EmptyColl,
      Put(EmptyColl, UC1, ReviewedDoc(FALSE, "manual")),
      Put(EmptyColl, UC2, ReviewedDoc(TRUE, "manual_bulk")) }

\* Identifiers a caller passes as seeds; UC2 is only ever discovered.
SeedIds == {UC1, H1}

\* Seed lists: every list of at most MaxSeeds seed identifiers, repeats
\* included.
SeedLists == UNION {[1..n -> SeedIds] : n \in 0..MaxSeeds}

(***************************************************************************)
(* The platform the scraper sees: for every identifier the tiles on its    *)
(* Channels tab (featured) and on its About page (subs).  A run is checked *)
(* against each of these graphs.                                           *)
(***************************************************************************)
TUC1 == TileOrder[1]
TUC2 == TileOrder[2]
TH1  == TileOrder[3]
THUC == TileOrder[4]

NoTiles == [i \in Ids |-> {}]

Graphs ==
    { \* nothing is related to anything
      [ featured |-> NoTiles, subs |-> NoTiles ],
      \* the cycle UC1 -> UC2 -> UC1, and the handle's page leading into it
      [ featured |-> [NoTiles EXCEPT ![UC1] = {TUC2}, ![UC2] = {TUC1}],
        subs     |-> [NoTiles EXCEPT ![H1] = {TUC1}] ],
      \* one channel featuring a canonical id and a handle
      [ featured |-> [NoTiles EXCEPT ![UC1] = {TUC2, TH1}],
        subs     |-> NoTiles ],
      \* relations through subscriptions, and a handle featuring itself
      [ featured |-> [NoTiles EXCEPT ![H1] = {TH1}],
        subs     |-> [NoTiles EXCEPT ![UC1] = {TUC2, TH1},
                                     ![UC2] = {TH1, TUC1}] ],
      \* every page shows every tile
      [ featured |-> [i \in Ids |-> Tiles],
        subs     |-> [i \in Ids |-> Tiles] ] }

\* Joint outcomes of the home screenshot, the avatar fetch and the banner
\* fetch for one item.
EvidenceOutcomes ==
    { << "ok", "ok", "ok" >>, << "ok", "fail", "ok" >>,
      << "fail", "fail", "fail" >>, << "removed", "fail", "fail" >> }

\* (is_bot, bot_check_type) pairs the callers pass.
LabelModes == { <<TRUE, "propagated">>, <<FALSE, "pending_review">> }

VARIABLES
    use_api,        \* expand_bot_graph_async(use_api=...)
    is_bot,         \* expand_bot_graph_async(is_bot=...)
    bot_check_type, \* expand_bot_graph_async(bot_check_type=...)
    seen,           \* the seen set
    queue,          \* the frontier list
    pc,             \* position of the crawl loop
    identifier,     \* the loop's dequeued identifier
    cur,            \* the processor's local identifier (after resolution)
    batch,          \* staged writes of db.batch() for this item
    subs,           \* subscriptions returned by the processor
    channel,        \* collection "channel"
    pending,        \* collection "channel_pending"
    links,          \* collection "channel_links" (a bag of edges)
    channel0,       \* "channel" as it was when the run started
    graph,          \* the platform's related-channel graph
    item,           \* history of the item in progress
    gathered,       \* <<dequeued id, processed id>> of every evidence gathering
    failedMidRun,   \* an item failed while the frontier was not empty
    depth           \* hops from the seeds at which each identifier was
                    \* first enqueued

\* The manifest blob, ManifestManager's callers and the file driver
\* register_commenter_channels of app/pipeline/comments/register_channels.py.
VARIABLES
    manifest,       \* the manifest blob in the bucket
    lastCall,       \* the ManifestManager call made last, with its argument
    readFailed,     \* a load() fell back to the default manifest
    gcs_paths,      \* register_commenter_channels(gcs_paths=...)
    force,          \* register_commenter_channels(force=...)
    resume,         \* register_commenter_channels(resume=...)
    limit_files,    \* register_commenter_channels(limit_files=...)
    remaining,      \* the files the loop has still to take
    gcs_path,       \* the loop's file
    rpc,            \* position of the driver
    completed0,     \* the stored completed list when the run started
    processed,      \* files whose threads this run iterated
    stoppedAt       \* the file the last run stopped in, if it stopped in one

crawlVars == << use_api, is_bot, bot_check_type, seen, queue, pc, identifier,
                cur, batch, subs, channel, pending, links, channel0, graph,
                item, gathered, failedMidRun, depth >>

manifestVars == << manifest, lastCall, readFailed >>

registerVars == << gcs_paths, force, resume, limit_files, remaining, gcs_path,
                   rpc, completed0, processed, stoppedAt >>

\* The concurrent batch register_commenter_channels of
\* app/screenshots/register_commenter_channels.py.
VARIABLES
    concurrency,    \* register_commenter_channels(concurrency=...)
    limit,          \* register_commenter_channels(limit=...), 0 for None
    paths_left,     \* files of gcs_paths the loop has still to read
    tasks,          \* position of each process_thread coroutine of the file
    sem,            \* value of the semaphore
    tabs,           \* browser tabs open
    seen_cids,      \* the seen set of the batch
    total_new,      \* total_new
    gather_raised   \* a coroutine raised: gather re-raised it to the loop

poolVars == << concurrency, limit, paths_left, tasks, sem, tabs, seen_cids,
               total_new, gather_raised >>

\* fetch_trending_videos_general and fetch_trending_videos_by_category of
\* app/youtube_api, and the blobs they write.
VARIABLES
    fetcher,          \* which of the two functions was called
    dry_run,          \* dry_run
    max_api_calls,    \* max_api_calls: None or an integer (the set holding it)
    page,             \* page (page_number in the by-category function)
    api_calls_made,   \* api_calls_made
    next_page_token,  \* next_page_token
    fpc,              \* position of the function: in its loop, or returned
    raw_pages,        \* pages whose response blob is stored
    seen_pages,       \* pages whose seen marker is stored
    trending_manifest,\* pages with an entry in the trending manifest
    store0            \* the three of them when the function was called

fetchVars == << fetcher, dry_run, max_api_calls, page, api_calls_made,
                next_page_token, fpc, raw_pages, seen_pages,
                trending_manifest, store0 >>

\* The browser of PlaywrightContext and one call of a scrape helper of
\* app/pipeline/channels/scraping.py (capture_home_screenshot,
\* scrape_avatar_url, scrape_banner_url, scrape_featured_channels,
\* scrape_about_page).
VARIABLES
    helper,         \* the helper that was called
    hpc,            \* position of the helper
    attempt,        \* page.goto calls the helper has made
    tab,            \* the helper's page: none, open, closed, or gone with
                    \* the browser that crashed
    open_tabs,      \* tabs open in the browser
    context,        \* self.context: missing (None), live, or dead
    np,             \* what the last new_page call did and was answered
    path,           \* the failure path the helper took, if it took one
    extracted       \* entries appended to the helper's result list

tabVars == << helper, hpc, attempt, tab, open_tabs, context, np, path,
             extracted >>

\* fetch_comment_threads_by_video_id of app/youtube_api: its arguments, page
\* counter, call counter, token and position are those of the trending
\* variables above.
VARIABLES
    consecutive_low_like_pages, \* consecutive_low_like_pages
    all_items,      \* like counts of the items gathered in all_items
    liked_pages,    \* has_high_like of every page fetched, in order
    stop,           \* why the function left its loop
    comments_seen,  \* the video's seen marker is stored
    comments_stored \* the video's comments blob is stored

commentVars == << consecutive_low_like_pages, all_items, liked_pages, stop,
                  comments_seen, comments_stored >>

\* _Batcher of app/pipeline/comments/register_channels.py, the coroutines
\* that call it, and the documents its commits stored.
VARIABLES
    _batch,         \* self._batch: the operations staged in it
    _count,         \* self._count
    _lock,          \* self._lock: the coroutine holding it, if any
    committed,      \* the batches committed, in order
    coros,          \* position of each coroutine in its call
    calls,          \* calls of set and flush made so far
    commit_failed   \* a batch.commit() raised

batcherVars == << _batch, _count, _lock, committed, coros, calls,
                  commit_failed >>

\* Everything outside the crawl.
others == << manifestVars, registerVars, poolVars, fetchVars, tabVars,
    commentVars, batcherVars >>

\* Everything outside the manifest and the file driver.
outsideRegister == << crawlVars, poolVars, fetchVars, tabVars, commentVars,
    batcherVars >>

\* Everything outside the concurrent batch.
outsidePool == << crawlVars, manifestVars, registerVars, fetchVars, tabVars,
    commentVars, batcherVars >>

\* Everything outside the trending fetch.
outsideFetch == << crawlVars, manifestVars, registerVars, poolVars, tabVars,
    commentVars, batcherVars >>

\* Everything outside the browser and the scrape helpers.
outsideTab == << crawlVars, manifestVars, registerVars, poolVars, fetchVars,
    commentVars, batcherVars >>

\* Everything outside the comment fetch.
outsideComment == << crawlVars, manifestVars, registerVars, poolVars, tabVars,
                     raw_pages, seen_pages, trending_manifest, store0,
    batcherVars >>

\* Everything outside the batcher.
outsideBatcher == << crawlVars, manifestVars, registerVars, poolVars,
                     fetchVars, tabVars, commentVars >>

\* Everything outside the file driver, its manifest and its batcher.
outsideDriver == << crawlVars, poolVars, fetchVars, tabVars, commentVars >>

vars == << crawlVars, others >>

params == << use_api, is_bot, bot_check_type, channel0, graph >>

\* History of one item: what was invoked and what the environment answered.
NewItem(raw, existed) ==
    [ raw |-> raw, existed |-> existed, dupe |-> FALSE,
      url |-> GetChannelUrl(raw),
      shot |-> "none", av |-> "none", bn |-> "none",
      calls |-> {}, unresolved |-> {}, enq |-> {}, skel |-> {} ]

Idle == NewItem(<<>>, FALSE)

\* The manifest of a bucket nothing was stored in.
NoManifest ==
    [ exists |-> FALSE, completed |-> <<>>, in_progress |-> NoneV,
      last_run |-> NoneV ]

\* limit_files = None; an integer limit is the set holding it.
NoLimit == {}

NoCall == [ op |-> "none", path |-> NoneV, again |-> FALSE ]

\* The manifest subsystem and the file driver before any call.
ManifestIdle ==
    /\ manifest = NoManifest
    /\ lastCall = NoCall
    /\ readFailed = FALSE

RegisterIdle ==
    /\ gcs_paths = <<>>
    /\ force = FALSE
    /\ resume = TRUE
    /\ limit_files = NoLimit
    /\ remaining = <<>>
    /\ gcs_path = NoneV
    /\ rpc = "idle"
    /\ completed0 = {}
    /\ processed = {}
    /\ stoppedAt = NoneV

\* Coroutines of one file: none has been created.
NoTasks == << >>

PoolIdle ==
    /\ concurrency = 1
    /\ limit = 0
    /\ paths_left = 0
    /\ tasks = NoTasks
    /\ sem = 1
    /\ tabs = 0
    /\ seen_cids = {}
    /\ total_new = 0
    /\ gather_raised = FALSE

\* new_page has not been called.
NoNewPage ==
    [ first |-> "none", relaunch |-> "none", second |-> "none",
      launches |-> 0, opens |-> 0, outcome |-> "none" ]

\* The browser as __aenter__ leaves it, and no helper called.
TabIdle ==
    /\ helper = "none"
    /\ hpc = "idle"
    /\ attempt = 0
    /\ tab = "none"
    /\ open_tabs = 0
    /\ context = "live"
    /\ np = NoNewPage
    /\ path = "none"
    /\ extracted = 0

\* No comment fetch was called.
CommentIdle ==
    /\ consecutive_low_like_pages = 0
    /\ all_items = {}
    /\ liked_pages = <<>>
    /\ stop = "none"
    /\ comments_seen = FALSE
    /\ comments_stored = FALSE

\* batch_size (100 in the driver)
BatchSize == 2

\* Most channels one comment file registers.
MaxPerFile == 1

\* self._batch after _commit_locked took the batch b for its commit.
KeptBatch(b) == b

NewBatch(b) == {}

\* Coroutines that share one _Batcher.
Coroutines == {"t1", "t2"}

\* A coroutine outside every call.
NoCoro ==
    [ pc |-> "idle", kind |-> "none", op |-> 0, batch |-> {}, must |-> {},
      sets |-> {} ]

\* asyncio.Lock(), not held.
Unlocked == {}

\* _Batcher.__init__, and no caller.
BatcherIdle ==
    /\ _batch = {}
    /\ _count = 0
    /\ _lock = Unlocked
    /\ committed = <<>>
    /\ coros = [c \in Coroutines |-> NoCoro]
    /\ calls = 0
    /\ commit_failed = FALSE

\* max_api_calls = None; an integer bound is the set holding it.
NoBound == {}

FetchIdle ==
    /\ fetcher = "general"
    /\ dry_run = FALSE
    /\ max_api_calls = NoBound
    /\ page = 1
    /\ api_calls_made = 0
    /\ next_page_token = NoneV
    /\ fpc = "returned"
    /\ raw_pages = {}
    /\ seen_pages = {}
    /\ trending_manifest = {}
    /\ store0 = << {}, {}, {} >>

OthersIdle == ManifestIdle /\ RegisterIdle /\ PoolIdle /\ FetchIdle /\ TabIdle
              /\ CommentIdle /\ BatcherIdle

Init ==
    /\ OthersIdle
    /\ use_api \in BOOLEAN
    /\ \E m \in LabelModes : is_bot = m[1] /\ bot_check_type = m[2]
    /\ \E s \in SeedLists : queue = s /\ seen = Range(s)
    /\ pc = "loop"
    /\ identifier = <<>>
    /\ cur = <<>>
    /\ batch = <<>>
    /\ subs = <<>>
    /\ channel \in ExistingStores
    /\ channel0 = channel
    /\ graph \in Graphs
    /\ pending = EmptyColl
    /\ links = EmptyBag
    /\ item = Idle
    /\ gathered = {}
    /\ failedMidRun = FALSE
    /\ depth = [i \in Range(queue) |-> 0]

(***************************************************************************)
(* _init_channel_doc: create-if-absent of a "channel" document, staged in  *)
(* the batch b.  hasItem: an API item was passed; shotUri: the screenshot  *)
(* URI or NoneV; av, bn: outcome of store_avatar_to_gcs and                *)
(* store_banner_to_gcs.                                                    *)
(***************************************************************************)
InitChannelDocNoCheck(b, store, cid, hasItem, shotUri, scraped_only, isb, bct, av, bn) ==
    Append(b, [ id |-> cid,
                data |-> [ is_bot |-> isb, is_bot_check_type |-> bct,
                           is_bot_checked |-> isb,
                           screenshot_gcs_uri |-> shotUri,
                           avatar_gcs_uri |->
                               IF hasItem /\ ~scraped_only /\ av = "ok"
                               THEN GsUri ELSE NoneV,
                           banner_gcs_uri |->
                               IF hasItem /\ ~scraped_only /\ bn = "ok"
                               THEN GsUri ELSE NoneV,
                           is_metadata_missing |-> scraped_only ] ])

InitChannelDocNeedsShot(b, store, cid, hasItem, shotUri, scraped_only, isb, bct, av, bn) ==
    IF cid \in DOMAIN store \/ (~scraped_only /\ shotUri = NoneV) THEN b
    ELSE InitChannelDocNoCheck(b, store, cid, hasItem, shotUri, scraped_only,
                               isb, bct, av, bn)

InitChannelDoc(b, store, cid, hasItem, shotUri, scraped_only, isb, bct, av, bn) ==
    IF cid \in DOMAIN store THEN b
    ELSE Append(b, [ id |-> cid,
                     data |-> [ is_bot |-> isb, is_bot_check_type |-> bct,
                                is_bot_checked |-> isb,
                                screenshot_gcs_uri |-> shotUri,
                                avatar_gcs_uri |->
                                    IF hasItem /\ ~scraped_only /\ av = "ok"
                                    THEN GsUri ELSE NoneV,
                                banner_gcs_uri |->
                                    IF hasItem /\ ~scraped_only /\ bn = "ok"
                                    THEN GsUri ELSE NoneV,
                                is_metadata_missing |-> scraped_only ] ])

\* WriteBatch.commit(): the staged sets, applied in order.
RECURSIVE CommitBatch(_, _)
CommitBatch(store, b) ==
    IF b = <<>> THEN store
    ELSE CommitBatch(Put(store, Head(b).id, Head(b).data), Tail(b))

\* The home document _process_channel_without_api stages for a canonical id.
ScrapedHomeDoc(isb, bct, shotUri, avUri, bnUri) ==
    [ is_bot |-> isb, is_bot_check_type |-> bct, is_bot_checked |-> isb,
      screenshot_gcs_uri |-> shotUri, avatar_gcs_uri |-> avUri,
      banner_gcs_uri |-> bnUri, is_metadata_missing |-> TRUE ]

\* The pending document _process_channel_without_api merges for a handle.
ScrapedPendingDoc(h, isb, bct, shotUri, avUri, bnUri) ==
    [ handle |-> h, screenshot_gcs_uri |-> shotUri, avatar_gcs_uri |-> avUri,
      banner_gcs_uri |-> bnUri, is_bot |-> isb, is_bot_check_type |-> bct,
      is_metadata_missing |-> TRUE ]

\* The pending document _process_channel_with_api merges when the item's id
\* is not a canonical id.
ApiPendingDoc(h, isb, bct, shotUri) ==
    [ handle |-> h, screenshot_gcs_uri |-> shotUri,
      is_metadata_missing |-> TRUE, is_bot |-> isb,
      is_bot_check_type |-> bct ]

\* The pending document written for a handle found on a page.
SkeletonPendingDoc(h, source) ==
    [ handle |-> h, source |-> source, needs_resolution |-> TRUE ]

\* One document of "channel_links".
EdgeToFrom(from, to, source) == << to, from, source >>

Edge(from, to, source) == << from, to, source >>

AddLink(bag, e) == bag (+) SetToBag({e})

Uri(outcome) == IF outcome = "ok" THEN GsUri ELSE NoneV

\* queue.pop(0): the list that is left.
PopStuck(q) == q

Pop(q) == Tail(q)

\* Where the loop goes after the except clauses caught an item's exception.
OnItemExceptionAbort == "done"

OnItemException == "loop"

(***************************************************************************)
(* The state the loops over scraped identifiers thread through: the seen   *)
(* set, the queue and the three collections, with the history fields.      *)
(***************************************************************************)
LoopState ==
    [ seen |-> seen, queue |-> queue, links |-> links, channel |-> channel,
      pending |-> pending, enq |-> item.enq, unresolved |-> item.unresolved ]

\* seen.add(f); queue.append(f)
EnqueueFront(st, f) ==
    [st EXCEPT !.seen = @ \cup {f}, !.queue = << f >> \o @,
               !.enq = @ \cup {f}]

Enqueue(st, f) ==
    [st EXCEPT !.seen = @ \cup {f}, !.queue = Append(@, f),
               !.enq = @ \cup {f}]

\* Body of "for f in featured" in _process_channel_without_api.
FeaturedStep(st, from, f) ==
    IF StartsWithUC(f)
    THEN IF f \notin st.seen
         THEN LET q  == Enqueue(st, f)
                  fb == InitChannelDoc(<<>>, q.channel, f, FALSE, NoneV, TRUE,
                                       is_bot, bot_check_type, "none", "none")
              IN  [q EXCEPT
                     !.links = AddLink(@, Edge(from, f, "featured_scrape")),
                     !.channel = CommitBatch(@, fb)]
         ELSE st
    ELSE LET q == IF f \notin st.seen THEN Enqueue(st, f) ELSE st
         IN  [q EXCEPT
                !.links = AddLink(@, Edge(from, f, "featured_scrape")),
                !.pending = Put(@, f, SkeletonPendingDoc(f, "featured_scrape"))]

RECURSIVE FeaturedLoop(_, _, _)
FeaturedLoop(st, from, fs) ==
    IF fs = <<>> THEN st
    ELSE FeaturedLoop(FeaturedStep(st, from, Head(fs)), from, Tail(fs))

\* Body of the loop over the featured channels of the API's channel sections.
SectionStep(st, from, f) ==
    IF f \notin st.seen
    THEN [Enqueue(st, f) EXCEPT
            !.links = AddLink(@, Edge(from, f, "channelSections"))]
    ELSE st

RECURSIVE SectionLoop(_, _, _)
SectionLoop(st, from, fs) ==
    IF fs = <<>> THEN st
    ELSE SectionLoop(SectionStep(st, from, Head(fs)), from, Tail(fs))

\* Body of "for sub in subs" in _process_subscriptions.
SubStep(st, from, sub, apiOk) ==
    IF ~StartsWithUC(sub) /\ ~use_api
    THEN LET q == IF sub \notin st.seen THEN Enqueue(st, sub) ELSE st
         IN  [q EXCEPT
                !.links = AddLink(@, Edge(from, sub, "subscriptions")),
                !.pending = Put(@, sub, SkeletonPendingDoc(sub, "subscriptions"))]
    ELSE LET resolved == IF StartsWithUC(sub) THEN sub
                         ELSE ResolveHandleToId(sub, apiOk)
             sub_id   == IF resolved = NoneV THEN sub ELSE resolved
             noted    == IF resolved = NoneV
                         THEN [st EXCEPT !.unresolved = @ \cup {sub}]
                         ELSE st
         IN  IF sub_id \notin st.seen /\ StartsWithUC(sub_id)
             THEN [Enqueue(noted, sub_id) EXCEPT
                     !.links = AddLink(@, Edge(from, sub_id, "subscriptions"))]
             ELSE noted

RECURSIVE SubsLoop(_, _, _, _)
SubsLoop(st, from, ss, apiOk) ==
    IF ss = <<>> THEN st
    ELSE SubsLoop(SubStep(st, from, Head(ss), apiOk), from, Tail(ss), apiOk)

\* The list of channel ids a "multiplechannels" section carries.
SectionChannels(S) == ScrapedList({t \in S : t.prefix = "/channel/"})

InItem == {"home", "sections", "featured", "about", "subs", "commit"}

\* The depth of every identifier of the queue q: an identifier enqueued
\* while the item `from` is processed is one hop further than `from`.
Discovered(d, q, from) ==
    [i \in DOMAIN d \cup Range(q) |->
        IF i \in DOMAIN d THEN d[i] ELSE d[from] + 1]

(***************************************************************************)
(* expand_bot_graph_async: the loop head.                                  *)
(***************************************************************************)
Dequeue ==
    /\ pc = "loop"
    /\ queue /= <<>>
    /\ identifier' = Head(queue)
    /\ cur' = Head(queue)
    /\ queue' = Pop(queue)
    /\ batch' = <<>>
    /\ subs' = <<>>
    /\ item' = NewItem(Head(queue), Head(queue) \in DOMAIN channel)
    /\ pc' = "home"
    /\ UNCHANGED << params, others, seen, channel, pending, links, gathered,
                    failedMidRun, depth >>

Finish ==
    /\ pc = "loop"
    /\ queue = <<>>
    /\ pc' = "done"
    /\ UNCHANGED << params, others, seen, queue, identifier, cur, batch, subs, channel,
                    pending, links, item, gathered, failedMidRun, depth >>

(***************************************************************************)
(* _process_channel_with_api up to the channel document: fetch and         *)
(* resolve, seen update, home screenshot, _init_channel_doc or the pending *)
(* merge.                                                                  *)
(***************************************************************************)
ApiHome ==
    /\ pc = "home"
    /\ use_api
    /\ \E apiOk \in BOOLEAN, ev \in EvidenceOutcomes :
         LET channel_id == FetchChannelItem(identifier, apiOk)
             shot == ev[1]
             av   == ev[2]
             bn   == ev[3]
         IN  IF channel_id = NoneV
             THEN /\ subs' = <<>>
                  /\ pc' = "subs"
                  /\ item' = [item EXCEPT !.unresolved =
                                 IF StartsWithUC(identifier) THEN @
                                 ELSE @ \cup {identifier}]
                  /\ UNCHANGED << seen, cur, batch, pending, gathered >>
             ELSE LET fresh == channel_id \notin DOMAIN channel
                  IN
                  /\ seen' = seen \cup {channel_id}
                  /\ cur' = channel_id
                  /\ gathered' = gathered \cup {<< identifier, channel_id >>}
                  /\ item' = [item EXCEPT
                        !.url = GetChannelUrl(channel_id),
                        !.dupe = \E g \in gathered :
                                    g[2] = channel_id /\ g[1] /= identifier,
                        !.calls = @ \cup {"screenshot"},
                        !.shot = shot,
                        !.av = IF StartsWithUC(channel_id) /\ fresh
                               THEN av ELSE "none",
                        !.bn = IF StartsWithUC(channel_id) /\ fresh
                               THEN bn ELSE "none"]
                  /\ IF StartsWithUC(channel_id)
                     THEN /\ batch' = InitChannelDoc(batch, channel, channel_id,
                                         TRUE, Uri(shot), FALSE, is_bot,
                                         bot_check_type, av, bn)
                          /\ UNCHANGED pending
                     ELSE /\ pending' = PutMerge(pending, channel_id,
                                         ApiPendingDoc(channel_id, is_bot,
                                             bot_check_type, Uri(shot)))
                          /\ UNCHANGED batch
                  /\ subs' = <<>>
                  /\ pc' = "sections"
    /\ UNCHANGED << params, others, queue, identifier, channel, links, failedMidRun, depth >>

\* _process_channel_with_api from the channelSections fetch on: the About
\* scrape and the loop over the sections' featured channels.
ApiExpand ==
    /\ pc = "sections"
    /\ LET st == SectionLoop(LoopState, cur,
                             SectionChannels(graph.featured[cur]))
         IN  /\ subs' = ScrapedList(graph.subs[cur])
             /\ seen' = st.seen
             /\ queue' = st.queue
             /\ links' = st.links
             /\ item' = [item EXCEPT !.calls = @ \cup {"sections", "about"},
                                     !.enq = st.enq]
             /\ depth' = Discovered(depth, st.queue, identifier)
    /\ pc' = "subs"
    /\ UNCHANGED << params, others, identifier, cur, batch, channel, pending, gathered,
                    failedMidRun >>

(***************************************************************************)
(* _process_channel_without_api up to the home document: screenshot,       *)
(* avatar and banner scrapes, then the staged set or the pending merge.    *)
(***************************************************************************)
ScrapeHome ==
    /\ pc = "home"
    /\ ~use_api
    /\ \E ev \in EvidenceOutcomes :
         LET shot == ev[1]
             av   == ev[2]
             bn   == ev[3]
         IN
         /\ item' = [item EXCEPT
               !.dupe = \E g \in gathered :
                           g[2] = identifier /\ g[1] /= identifier,
               !.calls = @ \cup {"screenshot", "avatar", "banner"},
               !.shot = shot, !.av = av, !.bn = bn]
         /\ IF StartsWithUC(identifier)
            THEN /\ batch' = Append(batch,
                        [ id |-> identifier,
                          data |-> ScrapedHomeDoc(is_bot, bot_check_type,
                                       Uri(shot), Uri(av), Uri(bn)) ])
                 /\ UNCHANGED pending
            ELSE /\ pending' = PutMerge(pending, identifier,
                        ScrapedPendingDoc(identifier, is_bot, bot_check_type,
                            Uri(shot), Uri(av), Uri(bn)))
                 /\ UNCHANGED batch
    /\ gathered' = gathered \cup {<< identifier, identifier >>}
    /\ pc' = "featured"
    /\ UNCHANGED << params, others, seen, queue, identifier, cur, subs, channel, links,
                    failedMidRun, depth >>

\* scrape_featured_channels and the loop over its result.
ScrapeFeatured ==
    /\ pc = "featured"
    /\ LET st == FeaturedLoop(LoopState, identifier,
                              ScrapedList(graph.featured[identifier]))
         IN  /\ seen' = st.seen
             /\ queue' = st.queue
             /\ links' = st.links
             /\ channel' = st.channel
             /\ pending' = st.pending
             /\ item' = [item EXCEPT
                            !.calls = @ \cup {"featured"},
                            !.enq = st.enq,
                            !.skel = DOMAIN st.channel \ DOMAIN channel]
             /\ depth' = Discovered(depth, st.queue, identifier)
    /\ pc' = "about"
    /\ UNCHANGED << params, others, identifier, cur, batch, subs, gathered,
                    failedMidRun >>

\* scrape_about_page at the end of _process_channel_without_api.
ScrapeAbout ==
    /\ pc = "about"
    /\ subs' = ScrapedList(graph.subs[identifier])
    /\ item' = [item EXCEPT !.calls = @ \cup {"about"}]
    /\ pc' = "subs"
    /\ UNCHANGED << params, others, seen, queue, identifier, cur, batch, channel,
                    pending, links, gathered, failedMidRun, depth >>

\* _process_subscriptions(subs, identifier, ...)
ProcessSubscriptions ==
    /\ pc = "subs"
    /\ \E apiOk \in BOOLEAN :
         LET st == SubsLoop(LoopState, identifier, subs, apiOk)
         IN  /\ seen' = st.seen
             /\ queue' = st.queue
             /\ links' = st.links
             /\ pending' = st.pending
             /\ item' = [item EXCEPT !.enq = st.enq,
                                     !.unresolved = st.unresolved]
             /\ depth' = Discovered(depth, st.queue, identifier)
    /\ pc' = "commit"
    /\ UNCHANGED << params, others, identifier, cur, batch, subs, channel, gathered,
                    failedMidRun >>

\* batch.commit() at the end of the try block.
Commit ==
    /\ pc = "commit"
    /\ channel' = CommitBatch(channel, batch)
    /\ batch' = <<>>
    /\ item' = Idle
    /\ pc' = "loop"
    /\ UNCHANGED << params, others, seen, queue, identifier, cur, subs, pending, links,
                    gathered, failedMidRun, depth >>

\* An exception raised while the item is processed, caught by the except
\* clauses of the loop: the staged batch is dropped with the iteration.
ItemFail ==
    /\ pc \in InItem
    /\ pc' = OnItemException
    /\ batch' = <<>>
    /\ item' = Idle
    /\ failedMidRun' = (failedMidRun \/ queue /= <<>>)
    /\ UNCHANGED << params, others, seen, queue, identifier, cur, subs, channel,
                    pending, links, gathered, depth >>

Next ==
    \/ Dequeue
    \/ Finish
    \/ ApiHome
    \/ ApiExpand
    \/ ScrapeHome
    \/ ScrapeFeatured
    \/ ScrapeAbout
    \/ ProcessSubscriptions
    \/ Commit
    \/ ItemFail

Spec == Init /\ [][Next]_vars

\* Every scrape, fetch and store call returns: a step that can be taken is
\* eventually taken.
\* Termination and progress do not read the documents: they are checked
\* from an empty "channel" collection with the default label.
FairInit == Init /\ channel = EmptyColl /\ bot_check_type = "propagated"

FairSpec == FairInit /\ [][Next]_vars /\ WF_vars(Next)

(***************************************************************************)
(* Properties of the crawl.                                                *)
(***************************************************************************)
Label(d) == << d.is_bot, d.is_bot_checked, d.is_bot_check_type >>

PageScrapes == {"avatar", "banner", "featured", "about"}

AllFailed(it) == it.shot \in {"fail", "removed"} /\ it.av = "fail" /\ it.bn = "fail"

EmptyRefs(d) ==
    /\ d.screenshot_gcs_uri = NoneV
    /\ d.avatar_gcs_uri = NoneV
    /\ d.banner_gcs_uri = NoneV

\* C1: a "channel" document that carries a human-confirmed label (check type
\* manual or manual_bulk) keeps its is_bot, is_bot_checked and
\* is_bot_check_type over every step of the crawl.
C1_ConfirmedLabelKept ==
    [][ \A c \in DOMAIN channel :
            channel[c].is_bot_check_type \in ManualTypes
            => /\ c \in DOMAIN channel'
               /\ Label(channel'[c]) = Label(channel[c]) ]_vars

\* C2: once the run has created the "channel" document of a canonical id,
\* a later creation step for that id writes nothing: the document stays
\* field for field what the first creation left.
C2_SecondCreationNoOp ==
    [][ \A c \in DOMAIN channel \ DOMAIN channel0 :
            c \in DOMAIN channel' /\ channel'[c] = channel[c] ]_vars

\* C3: for every seed list and every graph, cyclic ones included, the crawl
\* terminates when every call returns: the loop exits with the queue empty.
C3_Terminates == <>(pc = "done" /\ queue = <<>>)

\* The cycle UC1 -> UC2 -> UC1 was crawled from UC1 and the run ended.
C3_CycleDrained ==
    /\ pc = "done"
    /\ TUC2 \in graph.featured[UC1]
    /\ TUC1 \in graph.featured[UC2]
    /\ {UC1, UC2} \subseteq {g[2] : g \in gathered}

\* C4: in a run started with bot_check_type = "pending_review", every
\* "channel" document and every "channel_pending" document the run created
\* carries is_bot_check_type = "pending_review".
C4_LabelPropagated ==
    bot_check_type = "pending_review"
    => /\ \A c \in DOMAIN channel \ DOMAIN channel0 :
            channel[c].is_bot_check_type = "pending_review"
       /\ \A h \in DOMAIN pending :
            /\ "is_bot_check_type" \in DOMAIN pending[h]
            /\ pending[h].is_bot_check_type = "pending_review"

\* C5: when the home screenshot's check found the channel-unavailable alert,
\* no page scrape (avatar, banner, featured channels, About page) is invoked
\* for the item.
C5_RemovedShortCircuit ==
    item.shot = "removed" => item.calls \cap PageScrapes = {}

\* C6: in API mode, when the item's steps are over, every handle that could
\* not be resolved (the dequeued identifier or a subscription) has a
\* "channel_pending" document and is in the queue in handle form.
C6_UnresolvedHandleKept ==
    (use_api /\ pc = "commit")
    => \A h \in item.unresolved :
          h \in DOMAIN pending /\ h \in Range(queue)

\* C7: an item's failure does not end the run: the loop exits only with the
\* queue empty, and every identifier in the queue is eventually dequeued
\* and its processing started.
C7_FailureContained ==
    /\ [](pc = "done" => queue = <<>>)
    /\ \A i \in Ids :
          (i \in Range(queue)) ~> (pc = "home" /\ identifier = i)

\* The run ended although an item failed while identifiers were queued.
C7_EndedAfterFailure == pc = "done" /\ failedMidRun /\ gathered /= {}

\* C8: when the screenshot, the avatar fetch and the banner fetch of an item
\* all failed, the item's document is still written: the home document of a
\* canonical id is staged from the home step on and stored by the commit,
\* the pending document of a handle is stored by the home step; the three
\* evidence references are empty, and is_metadata_missing is true when the
\* document comes from scraping alone.
C8_StagedHome ==
    (AllFailed(item) /\ StartsWithUC(cur) /\ pc \in InItem \ {"home"})
    => /\ Len(batch) = 1
       /\ batch[1].id = cur
       /\ EmptyRefs(batch[1].data)
       /\ (~use_api => batch[1].data.is_metadata_missing)

C9_ResolvedDuplicateSkipped ==
    (use_api /\ item.dupe) => item.calls = {}

Prefix(q, r) == Len(q) <= Len(r) /\ SubSeq(r, 1, Len(q)) = q

\* C21: the queue is first-in first-out and the loop sequential: a step that
\* shortens the queue is the loop head taking its first element while no
\* item is in progress, every other step only appends; so the queue is
\* ordered by depth and holds nothing nearer to the seeds than the item in
\* progress, which makes every identifier first discovered at depth d be
\* processed before any identifier first discovered at depth d+1.
C21_BreadthFirst ==
    /\ [](\A i \in 1..Len(queue) :
            /\ identifier /= <<>> => depth[identifier] <= depth[queue[i]]
            /\ \A j \in i..Len(queue) : depth[queue[i]] <= depth[queue[j]])
    /\ [][ IF Len(queue') < Len(queue)
           THEN /\ pc = "loop"
                /\ item = Idle
                /\ identifier' = Head(queue)
                /\ queue' = Tail(queue)
           ELSE Prefix(queue, queue') ]_vars

\* An identifier two hops from the seeds is being processed, after the
\* seed and the identifier one hop away that led to it.
C21_SecondHop ==
    /\ pc \in InItem
    /\ depth[identifier] = 2
    /\ \E a, b \in {g[1] : g \in gathered} : depth[a] = 0 /\ depth[b] = 1

(***************************************************************************)
(* The scenario: a scrape-only crawl of the one canonical seed UC1 from an *)
(* empty "channel" collection, on a platform where the seed's pages show   *)
(* the canonical id UC2 and the handle h1, each once, and no other page    *)
(* shows a tile.                                                           *)
(***************************************************************************)
ScenarioGraphs ==
    { \* both on the Channels tab
      [ featured |-> [NoTiles EXCEPT ![UC1] = {TUC2, TH1}],
        subs     |-> NoTiles ],
      \* both on the About page
      [ featured |-> NoTiles,
        subs     |-> [NoTiles EXCEPT ![UC1] = {TUC2, TH1}] ],
      \* one on each
      [ featured |-> [NoTiles EXCEPT ![UC1] = {TUC2}],
        subs     |-> [NoTiles EXCEPT ![UC1] = {TH1}] ],
      [ featured |-> [NoTiles EXCEPT ![UC1] = {TH1}],
        subs     |-> [NoTiles EXCEPT ![UC1] = {TUC2}] ] }

ScenarioInit ==
    /\ OthersIdle
    /\ use_api = FALSE
    /\ \E m \in LabelModes : is_bot = m[1] /\ bot_check_type = m[2]
    /\ queue = << UC1 >>
    /\ seen = {UC1}
    /\ pc = "loop"
    /\ identifier = <<>>
    /\ cur = <<>>
    /\ batch = <<>>
    /\ subs = <<>>
    /\ channel = EmptyColl
    /\ channel0 = channel
    /\ graph \in ScenarioGraphs
    /\ pending = EmptyColl
    /\ links = EmptyBag
    /\ item = Idle
    /\ gathered = {}
    /\ failedMidRun = FALSE
    /\ depth = [i \in Range(queue) |-> 0]

\* The steps of a scrape-only run in which every call returns (the
\* scenario's scraper answers every request, none raises).
ScenarioNext ==
    \/ Dequeue
    \/ Finish
    \/ ScrapeHome
    \/ ScrapeFeatured
    \/ ScrapeAbout
    \/ ProcessSubscriptions
    \/ Commit

ScenarioSpec == ScenarioInit /\ [][ScenarioNext]_vars

\* C11: the scenario's run (scrape-only, seed S = UC1, the pages of S
\* showing C = UC2 and H = h1, no call raising) ends with exactly the
\* "channel" documents S and C, the "channel_pending" document H, and
\* exactly two "channel_links" documents, S -> C and S -> H.
C11_ScenarioOutcome ==
    (~use_api /\ channel0 = EmptyColl /\ graph \in ScenarioGraphs /\ pc = "done")
    => /\ DOMAIN channel = {UC1, UC2}
       /\ DOMAIN pending = {H1}
       /\ BagCardinality(links) = 2
       /\ {<< e[1], e[2] >> : e \in BagToSet(links)}
              = {<< UC1, UC2 >>, << UC1, H1 >>}

\* The scenario's run ended, the related channels having been found on the
\* About page and all three identifiers processed.
C11_ScenarioEnded ==
    /\ pc = "done"
    /\ graph.subs[UC1] = {TUC2, TH1}
    /\ Ids \subseteq {g[1] : g \in gathered}
    /\ BagCardinality(links) = 2

\* C12: every step that writes a "channel_pending" document merges into
\* it: the document is still there and every field it had is still present.
C12_PendingWritesMerge ==
    [][ \A h \in DOMAIN pending :
            /\ h \in DOMAIN pending'
            /\ DOMAIN pending[h] \subseteq DOMAIN pending'[h] ]_vars

\* C13: when an item fails and its staged home document is dropped with the
\* batch, no skeleton document written for a channel this item discovered is
\* in the "channel" collection.
C13_SkeletonWithHome ==
    [][ (ItemFail /\ batch /= <<>>)
        => item.skel \cap DOMAIN channel' = {} ]_vars

(***************************************************************************)
(* ManifestManager of app/utils/manifest_utils.py.  The blob holds the     *)
(* JSON object {completed, in_progress, last_run}; a file is named by its  *)
(* path.                                                                   *)
(***************************************************************************)
Paths == {"f1", "f2", "f3"}

\* Longest listing of input files, and longest stored completed list at the
\* start.
MaxFiles == 2

\* The lists of at most n distinct elements of S.
DistinctSeqs(S, n) ==
    UNION { {q \in [1..k -> S] : \A i, j \in 1..k : q[i] = q[j] => i = j}
            : k \in 0..n }

\* Number of occurrences of x in the list q.
Count(x, q) == Cardinality({i \in 1..Len(q) : q[i] = x})

\* What load() returns when the blob does not exist or cannot be read.
DefaultManifest ==
    [ completed |-> <<>>, in_progress |-> NoneV, last_run |-> NoneV ]

\* ManifestManager.load; readOk: download_as_bytes and json.loads returned.
Load(blob, readOk) ==
    IF ~blob.exists THEN DefaultManifest
    ELSE IF readOk
         THEN [ completed |-> blob.completed, in_progress |-> blob.in_progress,
                last_run |-> blob.last_run ]
         ELSE DefaultManifest

\* load() took its except branch: a stored manifest was replaced by the
\* default one.
ReadFell(blob, readOk) == blob.exists /\ ~readOk

\* ManifestManager.save: the blob after the upload.
Save(m) ==
    [ exists |-> TRUE, completed |-> m.completed,
      in_progress |-> m.in_progress, last_run |-> "now" ]

\* ManifestManager.get_completed
GetCompleted(blob, readOk) == Load(blob, readOk).completed

\* ManifestManager.mark_in_progress: the blob it leaves.
MarkInProgressUnsaved(blob, p, readOk) == blob

MarkInProgress(blob, p, readOk) ==
    Save([Load(blob, readOk) EXCEPT !.in_progress = p])

\* ManifestManager.mark_completed: the blob it leaves.
MarkCompletedAppend(blob, p, readOk) ==
    Save([Load(blob, readOk) EXCEPT !.completed = Append(@, p),
                                    !.in_progress = NoneV])

MarkCompleted(blob, p, readOk) ==
    Save([Load(blob, readOk) EXCEPT
            !.completed = IF p \in Range(@) THEN @ ELSE Append(@, p),
            !.in_progress = NoneV])

\* ManifestManager.clear_in_progress
ClearInProgress(blob, readOk) ==
    Save([Load(blob, readOk) EXCEPT !.in_progress = NoneV])

\* ManifestManager.reset
Reset == Save(DefaultManifest)

\* Manifests found in the bucket when a program starts.
StoredManifests ==
    {NoManifest} \cup
    { [ exists |-> TRUE, completed |-> c, in_progress |-> ip,
        last_run |-> "now" ] :
      c \in DistinctSeqs(Paths, MaxFiles), ip \in {NoneV} \cup Paths }

\* The crawl, not running.
CrawlIdle ==
    /\ use_api = FALSE
    /\ is_bot = TRUE
    /\ bot_check_type = "propagated"
    /\ seen = {}
    /\ queue = <<>>
    /\ pc = "done"
    /\ identifier = <<>>
    /\ cur = <<>>
    /\ batch = <<>>
    /\ subs = <<>>
    /\ channel = EmptyColl
    /\ channel0 = EmptyColl
    /\ graph = [ featured |-> NoTiles, subs |-> NoTiles ]
    /\ pending = EmptyColl
    /\ links = EmptyBag
    /\ item = Idle
    /\ gathered = {}
    /\ failedMidRun = FALSE
    /\ depth = [i \in Range(queue) |-> 0]

\* The record of a call in lastCall; again: the call before it was the same
\* call with the same argument.
Called(op, p) ==
    [ op |-> op, path |-> p,
      again |-> (lastCall.op = op /\ lastCall.path = p) ]

(***************************************************************************)
(* A caller of ManifestManager making its calls in any order.              *)
(***************************************************************************)
ManifestInit ==
    /\ CrawlIdle
    /\ BatcherIdle
    /\ CommentIdle
    /\ TabIdle
    /\ RegisterIdle
    /\ PoolIdle
    /\ FetchIdle
    /\ manifest \in StoredManifests
    /\ lastCall = NoCall
    /\ readFailed = FALSE

CallMarkInProgress ==
    /\ \E p \in Paths, readOk \in BOOLEAN :
         /\ manifest' = MarkInProgress(manifest, p, readOk)
         /\ lastCall' = Called("mark_in_progress", p)
         /\ readFailed' = (readFailed \/ ReadFell(manifest, readOk))
    /\ UNCHANGED << outsideRegister, registerVars >>

CallMarkCompleted ==
    /\ \E p \in Paths, readOk \in BOOLEAN :
         /\ manifest' = MarkCompleted(manifest, p, readOk)
         /\ lastCall' = Called("mark_completed", p)
         /\ readFailed' = (readFailed \/ ReadFell(manifest, readOk))
    /\ UNCHANGED << outsideRegister, registerVars >>

CallClearInProgress ==
    /\ \E readOk \in BOOLEAN :
         /\ manifest' = ClearInProgress(manifest, readOk)
         /\ lastCall' = Called("clear_in_progress", NoneV)
         /\ readFailed' = (readFailed \/ ReadFell(manifest, readOk))
    /\ UNCHANGED << outsideRegister, registerVars >>

CallReset ==
    /\ manifest' = Reset
    /\ lastCall' = Called("reset", NoneV)
    /\ UNCHANGED << outsideRegister, registerVars, readFailed >>

ManifestNext ==
    \/ CallMarkInProgress
    \/ CallMarkCompleted
    \/ CallClearInProgress
    \/ CallReset

ManifestSpec == ManifestInit /\ [][ManifestNext]_vars

C15_CompletedAdditive ==
    [][ lastCall'.op /= "reset"
        => Range(manifest.completed) \subseteq Range(manifest'.completed) ]_vars

(***************************************************************************)
(* register_commenter_channels of app/pipeline/comments/register_channels  *)
(* .py: the loop over the input files, with the manifest calls it makes.   *)
(* The channel documents the threads of a file give rise to are written    *)
(* through the batcher to Firestore; they do not touch the manifest.       *)
(***************************************************************************)
\* (force, resume) as the callers pass them: register.py turns resume on
\* whenever force is off; the module's own entry point uses the defaults.
CallerModes == { << FALSE, TRUE >>, << TRUE, TRUE >>, << TRUE, FALSE >> }

\* limit_files as the callers pass it: None or an integer (the set
\* holding it).
LimitChoices == {NoLimit, {1}}

\* A listing of the input files (list_gcs_files: the blob names under the
\* prefix, each once).
Listings == DistinctSeqs(Paths, MaxFiles)

\* remaining[: max(0, limit_files)]
Limit(q, lim) ==
    IF lim = NoLimit THEN q
    ELSE LET n == CHOOSE x \in lim : TRUE
         IN  SubSeq(q, 1, IF n < Len(q) THEN (IF n < 0 THEN 0 ELSE n)
                          ELSE Len(q))

\* The files the run takes: [p for p in gcs_paths if force or p not in
\* completed], cut to limit_files.
RemainingAll(paths, completed, forced, lim) == Limit(paths, lim)

Remaining(paths, completed, forced, lim) ==
    Limit(SelectSeq(paths, LAMBDA p : forced \/ p \notin completed), lim)

RegisterInit ==
    /\ CrawlIdle
    /\ BatcherIdle
    /\ CommentIdle
    /\ TabIdle
    /\ PoolIdle
    /\ FetchIdle
    /\ manifest \in StoredManifests
    /\ lastCall = NoCall
    /\ readFailed = FALSE
    /\ gcs_paths \in Listings \ {<<>>}
    /\ force = FALSE
    /\ resume = TRUE
    /\ limit_files = NoLimit
    /\ remaining = <<>>
    /\ gcs_path = NoneV
    /\ rpc = "idle"
    /\ completed0 = {}
    /\ processed = {}
    /\ stoppedAt = NoneV

\* Lines 226-248: reset under force, the completed set, the remaining list.
StartRun ==
    /\ rpc \in {"idle", "stopped", "end"}
    /\ \E m \in CallerModes, lim \in LimitChoices, readOk \in BOOLEAN :
         LET stored == IF m[1] THEN Reset ELSE manifest
             completed == IF m[2] THEN Range(GetCompleted(stored, readOk))
                          ELSE {}
         IN  /\ force' = m[1]
             /\ resume' = m[2]
             /\ limit_files' = lim
             /\ manifest' = stored
             /\ lastCall' = IF m[2] THEN Called("get_completed", NoneV)
                            ELSE Called("reset", NoneV)
             /\ readFailed' = (readFailed \/ (m[2] /\ ReadFell(stored, readOk)))
             /\ remaining' = Remaining(gcs_paths, completed, m[1], lim)
    /\ completed0' = Range(manifest.completed)
    /\ processed' = {}
    /\ gcs_path' = NoneV
    /\ stoppedAt' = NoneV
    /\ _batch' = {}
    /\ _count' = 0
    /\ rpc' = "file"
    /\ UNCHANGED << outsideDriver, gcs_paths, _lock, committed, coros, calls,
                    commit_failed >>

\* Lines 251-253: the next file, marked in progress.
TakeFile ==
    /\ rpc = "file"
    /\ remaining /= <<>>
    /\ gcs_path' = Head(remaining)
    /\ remaining' = Tail(remaining)
    /\ \E readOk \in BOOLEAN :
         /\ manifest' = MarkInProgress(manifest, Head(remaining), readOk)
         /\ readFailed' = (readFailed \/ ReadFell(manifest, readOk))
    /\ lastCall' = Called("mark_in_progress", Head(remaining))
    /\ rpc' = "threads"
    /\ UNCHANGED << outsideRegister, gcs_paths, force, resume, limit_files,
                    completed0, processed, stoppedAt >>

\* The records of the file f that are staged or committed.
RecordsOf(f) ==
    {op \in _batch \cup UNION Range(committed) : op.file = f}

\* Lines 255-322, one thread: its author has no document, a usable avatar
\* and a non-empty About page, and `await batcher.set(doc_ref, data)`
\* stages the record, committing the batch when it is full.
RegisterThread ==
    /\ rpc = "threads"
    /\ Cardinality(RecordsOf(gcs_path)) < MaxPerFile
    /\ LET op == [ file |-> gcs_path,
                   n |-> Cardinality(RecordsOf(gcs_path)) + 1 ]
           staged == _batch \cup {op}
       IN  IF _count + 1 >= BatchSize
           THEN /\ _batch' = NewBatch(staged)
                /\ _count' = 0
                /\ committed' = Append(committed, staged)
           ELSE /\ _batch' = staged
                /\ _count' = _count + 1
                /\ committed' = committed
    /\ UNCHANGED << outsideDriver, manifestVars, registerVars, _lock, coros,
                    calls, commit_failed >>

\* Lines 255-322: the iteration over the file's threads ends.
IterateThreads ==
    /\ rpc = "threads"
    /\ processed' = processed \cup {gcs_path}
    /\ rpc' = "iterated"
    /\ UNCHANGED << outsideRegister, manifestVars, gcs_paths, force, resume,
                    limit_files, remaining, gcs_path, completed0, stoppedAt >>

\* Line 324: the file is marked completed.
CompleteFile ==
    /\ rpc = "iterated"
    /\ \E readOk \in BOOLEAN :
         /\ manifest' = MarkCompleted(manifest, gcs_path, readOk)
         /\ readFailed' = (readFailed \/ ReadFell(manifest, readOk))
    /\ lastCall' = Called("mark_completed", gcs_path)
    /\ rpc' = "file"
    /\ UNCHANGED << outsideRegister, gcs_paths, force, resume, limit_files,
                    remaining, gcs_path, completed0, processed, stoppedAt >>

\* Lines 327-336: the loop is over, and `await batcher.flush()`.
EndRun ==
    /\ rpc = "file"
    /\ remaining = <<>>
    /\ rpc' = "end"
    /\ IF _count > 0
       THEN /\ _batch' = NewBatch(_batch)
            /\ _count' = 0
            /\ committed' = Append(committed, _batch)
       ELSE UNCHANGED << _batch, _count, committed >>
    /\ UNCHANGED << outsideDriver, manifestVars, gcs_paths, force, resume,
                    limit_files, remaining, gcs_path, completed0, processed,
                    stoppedAt, _lock, coros, calls, commit_failed >>

\* The process is killed, or an exception leaves the function (nothing in
\* the loop catches the failure of a read of the file or of a write).
StopRun ==
    /\ rpc \in {"file", "threads", "iterated"}
    /\ stoppedAt' = IF rpc = "file" THEN NoneV ELSE gcs_path
    /\ rpc' = "stopped"
    /\ UNCHANGED << outsideRegister, manifestVars, gcs_paths, force, resume,
                    limit_files, remaining, gcs_path, completed0, processed >>

\* The operator clears the in_progress mark of a run that stopped.
OperatorClear ==
    /\ rpc = "stopped"
    /\ manifest.in_progress /= NoneV
    /\ \E readOk \in BOOLEAN :
         /\ manifest' = ClearInProgress(manifest, readOk)
         /\ readFailed' = (readFailed \/ ReadFell(manifest, readOk))
    /\ lastCall' = Called("clear_in_progress", NoneV)
    /\ UNCHANGED << outsideRegister, registerVars >>

RegisterNext ==
    \/ StartRun
    \/ TakeFile
    \/ IterateThreads
    \/ CompleteFile
    \/ EndRun
    \/ StopRun
    \/ OperatorClear

RegisterSpec == RegisterInit /\ [][RegisterNext]_vars

InFile == rpc \in {"threads", "iterated"}

Cids == {"c1", "c2", "c3"}

\* Most threads in one file.
MaxThreads == 3

\* Values of concurrency, of limit (0: no limit) and numbers of files.
Concurrencies == {1, 2}

PoolLimits == {0, 1}

FileCounts == {1, 2}

\* Positions of a coroutine inside "async with sem".
Guarded == {"inside", "opening", "scraping", "leaving", "adding", "raising"}

\* Semaphore.acquire returns at once: the value is positive.
SemFreeAlways(v) == TRUE

SemFree(v) == v > 0

InSection == {i \in DOMAIN tasks : tasks[i] \in Guarded}

AllDone == \A i \in DOMAIN tasks : tasks[i] = "done"

PoolInit ==
    /\ CrawlIdle
    /\ BatcherIdle
    /\ CommentIdle
    /\ TabIdle
    /\ ManifestIdle
    /\ RegisterIdle
    /\ FetchIdle
    /\ concurrency \in Concurrencies
    /\ limit \in PoolLimits
    /\ paths_left \in FileCounts
    /\ tasks = NoTasks
    /\ sem = concurrency
    /\ tabs = 0
    /\ seen_cids = {}
    /\ total_new = 0
    /\ gather_raised = FALSE

\* Lines 35-41 and 69-72: the limit test, the file's items, one coroutine
\* per item handed to gather.
ReadFile ==
    /\ ~gather_raised
    /\ paths_left > 0
    /\ AllDone
    /\ IF limit /= 0 /\ total_new >= limit
       THEN /\ paths_left' = 0
            /\ tasks' = NoTasks
       ELSE /\ paths_left' = paths_left - 1
            /\ \E n \in 0..MaxThreads : tasks' = [i \in 1..n |-> "start"]
    /\ UNCHANGED << outsidePool, concurrency, limit, sem, tabs, seen_cids,
                    total_new, gather_raised >>

\* Lines 45-52: the like and author tests and the seen test.
Filter(i) ==
    /\ tasks[i] = "start"
    /\ \E eligible \in BOOLEAN, cid \in Cids :
         IF eligible /\ cid \notin seen_cids
         THEN /\ seen_cids' = seen_cids \cup {cid}
              /\ tasks' = [tasks EXCEPT ![i] = "waiting"]
         ELSE /\ tasks' = [tasks EXCEPT ![i] = "done"]
              /\ UNCHANGED seen_cids
    /\ UNCHANGED << outsidePool, concurrency, limit, paths_left, sem, tabs,
                    total_new, gather_raised >>

\* Line 54: async with sem, entered.
Acquire(i) ==
    /\ tasks[i] = "waiting"
    /\ SemFree(sem)
    /\ sem' = sem - 1
    /\ tasks' = [tasks EXCEPT ![i] = "inside"]
    /\ UNCHANGED << outsidePool, concurrency, limit, paths_left, tabs,
                    seen_cids, total_new, gather_raised >>

\* _init_channel_doc up to the scrape: the document exists or the avatar is
\* the default one (return False), or the About page is to be scraped.
InitDocHead(i) ==
    /\ tasks[i] = "inside"
    /\ \E skip \in BOOLEAN :
         tasks' = [tasks EXCEPT ![i] = IF skip THEN "leaving" ELSE "opening"]
    /\ UNCHANGED << outsidePool, concurrency, limit, paths_left, sem, tabs,
                    seen_cids, total_new, gather_raised >>

\* scrape_about_page: context.new_page() returned a tab, or raised (the
\* finally clause then raises on the unbound page, out of the coroutine).
OpenTab(i) ==
    /\ tasks[i] = "opening"
    /\ \E opened \in BOOLEAN :
         IF opened
         THEN /\ tabs' = tabs + 1
              /\ tasks' = [tasks EXCEPT ![i] = "scraping"]
         ELSE /\ tasks' = [tasks EXCEPT ![i] = "raising"]
              /\ UNCHANGED tabs
    /\ UNCHANGED << outsidePool, concurrency, limit, paths_left, sem,
                    seen_cids, total_new, gather_raised >>

\* scrape_about_page: page.close() in the finally clause, and the rest of
\* _init_channel_doc (nothing found: return False; else the staged set).
CloseTab(i) ==
    /\ tasks[i] = "scraping"
    /\ tabs' = tabs - 1
    /\ \E added \in BOOLEAN :
         tasks' = [tasks EXCEPT ![i] = IF added THEN "adding" ELSE "leaving"]
    /\ UNCHANGED << outsidePool, concurrency, limit, paths_left, sem,
                    seen_cids, total_new, gather_raised >>

\* Lines 61-66: the commit and the count when added, then the end of
\* "async with sem" (the release), by return or by the exception.
Release(i) ==
    /\ tasks[i] \in {"leaving", "adding", "raising"}
    /\ sem' = sem + 1
    /\ total_new' = IF tasks[i] = "adding" THEN total_new + 1 ELSE total_new
    /\ gather_raised' = (gather_raised \/ tasks[i] = "raising")
    /\ tasks' = [tasks EXCEPT ![i] = "done"]
    /\ UNCHANGED << outsidePool, concurrency, limit, paths_left, tabs,
                    seen_cids >>

PoolNext ==
    \/ ReadFile
    \/ \E i \in DOMAIN tasks :
         \/ Filter(i)
         \/ Acquire(i)
         \/ InitDocHead(i)
         \/ OpenTab(i)
         \/ CloseTab(i)
         \/ Release(i)

PoolSpec == PoolInit /\ [][PoolNext]_vars

\* C18: at any time at most concurrency coroutines are inside the section
\* guarded by the semaphore, and at most concurrency tabs are open.
C18_BoundedSection ==
    /\ Cardinality(InSection) <= concurrency
    /\ tabs <= concurrency

\* The section is full, every coroutine in it has its tab open, and one
\* more coroutine waits for the semaphore.
C18_SectionFull ==
    /\ concurrency = 2
    /\ Cardinality(InSection) = 2
    /\ tabs = 2
    /\ \E i \in DOMAIN tasks : tasks[i] = "waiting"

(***************************************************************************)
(* fetch_trending_videos_general (app/youtube_api/fetch_trending_videos_   *)
(* general.py) and fetch_trending_videos_by_category (app/youtube_api/     *)
(* fetch_trending_videos_by_category.py): one step per iteration of the    *)
(* while loop.  The ids in seen_ids only feed the log line.                *)
(***************************************************************************)
\* Pages the chart can have, and the largest max_api_calls passed.
MaxPage == 3

MaxCalls == 2

\* Values of max_api_calls.
CallBounds == {NoBound} \cup {{n} : n \in 0..MaxCalls}

\* max_api_calls is not None and api_calls_made >= max_api_calls
BoundReached ==
    /\ max_api_calls /= NoBound
    /\ api_calls_made >= (CHOOSE n \in max_api_calls : TRUE)

\* What videos().list(...).execute() does: raises, returns the last page,
\* or returns a page with a nextPageToken.
ApiOutcomes == {"error", "last", "more"}

FetchInit ==
    /\ CrawlIdle
    /\ BatcherIdle
    /\ CommentIdle
    /\ TabIdle
    /\ ManifestIdle
    /\ RegisterIdle
    /\ PoolIdle
    /\ fetcher \in {"general", "category"}
    /\ dry_run \in BOOLEAN
    /\ max_api_calls \in CallBounds
    /\ page = 1
    /\ api_calls_made = 0
    /\ next_page_token = NoneV
    /\ fpc = "loop"
    /\ \E done \in SUBSET (1..MaxPage) :
         /\ raw_pages = done
         /\ seen_pages = done
         /\ trending_manifest = done
    /\ store0 = << raw_pages, seen_pages, trending_manifest >>

\* general, lines 99-102: the bound is reached.
GeneralAtBound ==
    /\ fetcher = "general"
    /\ fpc = "loop"
    /\ BoundReached
    /\ page < MaxPage
    /\ page' = page + 1
    /\ UNCHANGED << outsideFetch, fetcher, dry_run, max_api_calls,
                    api_calls_made, next_page_token, fpc, raw_pages,
                    seen_pages, trending_manifest, store0 >>

\* general, lines 104-107: the page has its seen marker.
GeneralSkip ==
    /\ fetcher = "general"
    /\ fpc = "loop"
    /\ ~BoundReached
    /\ page \in seen_pages
    /\ page < MaxPage
    /\ page' = page + 1
    /\ UNCHANGED << outsideFetch, fetcher, dry_run, max_api_calls,
                    api_calls_made, next_page_token, fpc, raw_pages,
                    seen_pages, trending_manifest, store0 >>

\* general, lines 109-141: the API call, save_page_to_gcs and
\* mark_trending_page_seen unless dry_run, the next token or the break.
GeneralFetch ==
    /\ fetcher = "general"
    /\ fpc = "loop"
    /\ ~BoundReached
    /\ page \notin seen_pages
    /\ api_calls_made' = api_calls_made + 1
    /\ \E r \in ApiOutcomes :
         /\ r = "more" => page < MaxPage
         /\ IF r = "error"
            THEN /\ fpc' = "returned"
                 /\ UNCHANGED << page, next_page_token, raw_pages, seen_pages,
                                 trending_manifest >>
            ELSE /\ IF dry_run
                    THEN UNCHANGED << raw_pages, seen_pages,
                                      trending_manifest >>
                    ELSE /\ raw_pages' = raw_pages \cup {page}
                         /\ trending_manifest' = trending_manifest \cup {page}
                         /\ seen_pages' = seen_pages \cup {page}
                 /\ next_page_token' = IF r = "more" THEN "token" ELSE NoneV
                 /\ fpc' = IF r = "more" THEN "loop" ELSE "returned"
                 /\ page' = IF r = "more" THEN page + 1 ELSE page
    /\ UNCHANGED << outsideFetch, fetcher, dry_run, max_api_calls, store0 >>

\* by category, lines 136-138: the bound is reached.
CategoryAtBound ==
    /\ fetcher = "category"
    /\ fpc = "loop"
    /\ BoundReached
    /\ fpc' = "returned"
    /\ UNCHANGED << outsideFetch, fetcher, dry_run, max_api_calls, page,
                    api_calls_made, next_page_token, raw_pages, seen_pages,
                    trending_manifest, store0 >>

\* by category, lines 140-142: the page has its seen marker.
CategorySkip ==
    /\ fetcher = "category"
    /\ fpc = "loop"
    /\ ~BoundReached
    /\ page \in seen_pages
    /\ fpc' = "returned"
    /\ UNCHANGED << outsideFetch, fetcher, dry_run, max_api_calls, page,
                    api_calls_made, next_page_token, raw_pages, seen_pages,
                    trending_manifest, store0 >>

\* by category, lines 144-179: the API call, save_response_to_gcs (which
\* writes unless dry_run), update_manifest, mark_trending_page_seen unless
\* dry_run, the next token or the break.
CategoryFetch ==
    /\ fetcher = "category"
    /\ fpc = "loop"
    /\ ~BoundReached
    /\ page \notin seen_pages
    /\ api_calls_made' = api_calls_made + 1
    /\ \E r \in ApiOutcomes :
         /\ r = "more" => page < MaxPage
         /\ IF r = "error"
            THEN /\ fpc' = "returned"
                 /\ UNCHANGED << page, next_page_token, raw_pages, seen_pages,
                                 trending_manifest >>
            ELSE /\ raw_pages' = IF dry_run THEN raw_pages
                                 ELSE raw_pages \cup {page}
                 /\ trending_manifest' = trending_manifest \cup {page}
                 /\ seen_pages' = IF dry_run THEN seen_pages
                                  ELSE seen_pages \cup {page}
                 /\ next_page_token' = IF r = "more" THEN "token" ELSE NoneV
                 /\ fpc' = IF r = "more" THEN "loop" ELSE "returned"
                 /\ page' = IF r = "more" THEN page + 1 ELSE page
    /\ UNCHANGED << outsideFetch, fetcher, dry_run, max_api_calls, store0 >>

FetchNext ==
    \/ GeneralAtBound
    \/ GeneralSkip
    \/ GeneralFetch
    \/ CategoryAtBound
    \/ CategorySkip
    \/ CategoryFetch

FetchSpec == FetchInit /\ [][FetchNext]_vars

\* C19: fetch_trending_videos_general called with max_api_calls = n makes
\* at most n API calls, and at the head of its loop with the bound reached
\* its next step is to return.
C19_StopsAtBound ==
    /\ []((fetcher = "general" /\ max_api_calls /= NoBound)
          => api_calls_made <= (CHOOSE n \in max_api_calls : TRUE))
    /\ [][ (fetcher = "general" /\ fpc = "loop" /\ BoundReached)
           => fpc' = "returned" ]_vars

\* C20: while fetch_trending_videos_by_category runs with dry_run on, the
\* stored page data, seen markers and manifest entries are those of the
\* moment it was called.
C20_DryRunWritesNothing ==
    (fetcher = "category" /\ dry_run)
    => << raw_pages, seen_pages, trending_manifest >> = store0

(***************************************************************************)
(* PlaywrightContext.new_page and the five scrape helpers of the crawl,    *)
(* each called on the browser the helper before it left.  A browser that   *)
(* crashed takes its tabs with it; the dead context stays in self.context  *)
(* until the next new_page.                                                *)
(***************************************************************************)
Helpers == {"screenshot", "avatar", "banner", "featured", "about"}

\* for attempt in range(3)
Attempts == 3

\* Most entries a scrape appends to its list.
MaxExtracted == 2

\* Answers of the browser to one new_page call: the launch when the context
\* is missing, the first context.new_page(), the relaunch, the second
\* context.new_page().
NewPageAnswers ==
    [ prelaunch : BOOLEAN, open1 : BOOLEAN, relaunch : BOOLEAN,
      open2 : BOOLEAN ]

Answer(b) == IF b THEN "ok" ELSE "fail"

\* new_page without its except clause.
NewPageNoRetry(ctx, e) ==
    IF ctx = "missing" /\ ~e.prelaunch
    THEN [ context |-> ctx,
           np |-> [NoNewPage EXCEPT !.outcome = "raised"] ]
    ELSE LET ctx1 == IF ctx = "missing" THEN "live" ELSE ctx
             ok1  == ctx1 = "live" /\ e.open1
         IN  [ context |-> ctx1,
               np |-> [NoNewPage EXCEPT !.first = Answer(ok1), !.opens = 1,
                          !.outcome = IF ok1 THEN "page" ELSE "raised"] ]

\* PlaywrightContext.new_page: the context it leaves in self.context and the
\* record of the call.  A dead context opens no tab.
NewPageResult(ctx, e) ==
    IF ctx = "missing" /\ ~e.prelaunch
    THEN [ context |-> ctx,
           np |-> [NoNewPage EXCEPT !.outcome = "raised"] ]
    ELSE LET ctx1 == IF ctx = "missing" THEN "live" ELSE ctx
             ok1  == ctx1 = "live" /\ e.open1
         IN  IF ok1
             THEN [ context |-> ctx1,
                    np |-> [NoNewPage EXCEPT !.first = "ok", !.opens = 1,
                                             !.outcome = "page"] ]
             ELSE IF ~e.relaunch
             THEN [ context |-> ctx1,
                    np |-> [NoNewPage EXCEPT !.first = "fail",
                               !.relaunch = "fail", !.launches = 1,
                               !.opens = 1, !.outcome = "raised"] ]
             ELSE [ context |-> "live",
                    np |-> [NoNewPage EXCEPT !.first = "fail",
                               !.relaunch = "ok", !.launches = 1,
                               !.second = Answer(e.open2), !.opens = 2,
                               !.outcome = IF e.open2 THEN "page"
                                           ELSE "raised"] ]

\* if attempt == 2: return about_links, subscriptions
LastAttemptLate(i) == i = Attempts

LastAttempt(i) == i = 2

\* Tabs open after page.close() closed one.
AfterCloseLeft(n) == n

AfterClose(n) == n - 1

HelperOver == {"idle", "returned", "raised"}

TabInit ==
    /\ CrawlIdle
    /\ BatcherIdle
    /\ CommentIdle
    /\ ManifestIdle
    /\ RegisterIdle
    /\ PoolIdle
    /\ FetchIdle
    /\ TabIdle

\* The crawl calls a helper.
CallHelper ==
    /\ hpc \in HelperOver
    /\ helper' \in Helpers
    /\ hpc' = "new_page"
    /\ attempt' = 0
    /\ tab' = "none"
    /\ np' = NoNewPage
    /\ path' = "none"
    /\ extracted' = 0
    /\ UNCHANGED << outsideTab, open_tabs, context >>

\* The browser process dies.
BrowserCrash ==
    /\ context = "live"
    /\ hpc /= "idle"
    /\ context' = "dead"
    /\ open_tabs' = 0
    /\ tab' = IF tab = "open" THEN "gone" ELSE tab
    /\ UNCHANGED << outsideTab, helper, hpc, attempt, np, path, extracted >>

\* page = await context.new_page().  capture_home_screenshot calls it before
\* its try; the other helpers inside it, so that their except clause and
\* their finally (page is None) lead to the return.
NewPage ==
    /\ hpc = "new_page"
    /\ \E e \in NewPageAnswers :
         LET r == NewPageResult(context, e)
         IN  /\ context' = r.context
             /\ np' = r.np
             /\ IF r.np.outcome = "page"
                THEN /\ tab' = "open"
                     /\ open_tabs' = open_tabs + 1
                     /\ hpc' = "nav"
                     /\ path' = path
                ELSE /\ UNCHANGED << tab, open_tabs >>
                     /\ hpc' = IF helper = "screenshot" THEN "raised"
                               ELSE "returned"
                     /\ path' = "open_failed"
    /\ UNCHANGED << outsideTab, helper, attempt, extracted >>

\* What a navigation and the checks after it can give.
NavOutcomes(h) ==
    IF h = "about" THEN {"error", "removed", "not_loaded", "loaded"}
    ELSE IF h = "screenshot" THEN {"error", "removed", "not_loaded", "loaded"}
    ELSE {"error", "loaded"}

\* One iteration of the retry loop of scrape_about_page.
GotoAbout ==
    /\ hpc = "nav"
    /\ helper = "about"
    /\ attempt < Attempts
    /\ attempt' = attempt + 1
    /\ \E r \in NavOutcomes(helper) :
         /\ tab = "gone" => r = "error"
         /\ IF r = "loaded"
            THEN hpc' = "scrape" /\ path' = "none"
            ELSE IF r = "removed"
            THEN hpc' = "close" /\ path' = "removed"
            ELSE /\ path' = IF r = "error" THEN "nav_error" ELSE "not_loaded"
                 /\ hpc' = IF LastAttempt(attempt) THEN "close"
                           ELSE IF attempt + 1 < Attempts THEN "nav"
                           ELSE "scrape"
    /\ UNCHANGED << outsideTab, helper, tab, open_tabs, context, np,
                    extracted >>

\* page.goto and the checks that follow it in the other helpers.
Goto ==
    /\ hpc = "nav"
    /\ helper /= "about"
    /\ attempt' = attempt + 1
    /\ \E r \in NavOutcomes(helper) :
         /\ tab = "gone" => r = "error"
         /\ IF r = "loaded"
            THEN hpc' = "scrape" /\ path' = path
            ELSE /\ hpc' = "close"
                 /\ path' = IF r = "error" THEN "nav_error" ELSE r
    /\ UNCHANGED << outsideTab, helper, tab, open_tabs, context, np,
                    extracted >>

\* The reads of the rendered page: the link and tile loops, the image
\* lookup, the screenshot and its upload.  A raise leaves what was appended.
Scrape ==
    /\ hpc = "scrape"
    /\ \E ok \in BOOLEAN, k \in 0..MaxExtracted :
         /\ tab = "gone" => ~ok /\ k = 0
         /\ helper \in {"screenshot", "avatar", "banner"} => k = 0
         /\ extracted' = k
         /\ path' = IF ok THEN path ELSE "scrape_error"
    /\ hpc' = "close"
    /\ UNCHANGED << outsideTab, helper, attempt, tab, open_tabs, context,
                    np >>

\* The finally clause: page.close(), then the return.  page.close() raises
\* only on a page whose browser is gone; scrape_about_page catches that.
ClosePage ==
    /\ hpc = "close"
    /\ IF tab = "open"
       THEN /\ tab' = "closed"
            /\ open_tabs' = AfterClose(open_tabs)
            /\ hpc' = "returned"
       ELSE /\ UNCHANGED << tab, open_tabs >>
            /\ \E raises \in BOOLEAN :
                 hpc' = IF raises /\ helper /= "about" THEN "raised"
                        ELSE "returned"
    /\ UNCHANGED << outsideTab, helper, attempt, context, np, path,
                    extracted >>

TabNext ==
    \/ CallHelper
    \/ BrowserCrash
    \/ NewPage
    \/ GotoAbout
    \/ Goto
    \/ Scrape
    \/ ClosePage

TabSpec == TabInit /\ [][TabNext]_vars

\* The paths of scrape_about_page on which nothing is extracted.
EmptyPaths == {"open_failed", "nav_error", "not_loaded", "removed"}

\* C22: scrape_about_page navigates at most 3 times, never raises to its
\* caller, and on the failure paths (tab open failed, navigation error or
\* content missing on every attempt, removed channel) returns its two lists
\* empty.
C22_AboutBoundedNoRaise ==
    helper = "about"
    => /\ attempt <= Attempts
       /\ hpc /= "raised"
       /\ (hpc = "returned" /\ path \in EmptyPaths) => extracted = 0

\* scrape_about_page returned after its third navigation failed.
C22_ThreeAttemptsFailed ==
    /\ helper = "about"
    /\ hpc = "returned"
    /\ attempt = Attempts
    /\ path = "nav_error"

\* C23: when a helper is over, by return or by raise, the tab it opened is
\* closed or gone with its browser: no tab is open between two helpers.
C23_TabClosed ==
    hpc \in HelperOver => open_tabs = 0 /\ tab /= "open"

\* A helper returned through its except clause with its tab closed.
C23_ClosedAfterException ==
    /\ hpc = "returned"
    /\ path = "scrape_error"
    /\ tab = "closed"
    /\ context = "live"

\* C24: a new_page call whose first tab open failed relaunched the browser
\* once and, when the relaunch succeeded, retried the open once; when both
\* succeed the caller gets its page, and new_page raises only when the
\* relaunch or the retried open failed.
C24_RelaunchOnceRetryOnce ==
    np.outcome /= "none"
    => /\ np.first = "ok"
          => np.launches = 0 /\ np.opens = 1 /\ np.outcome = "page"
       /\ np.first = "fail"
          => /\ np.launches = 1
             /\ np.opens = IF np.relaunch = "ok" THEN 2 ELSE 1
             /\ (np.relaunch = "ok" /\ np.second = "ok")
                => np.outcome = "page"
       /\ np.outcome = "raised"
          => np.relaunch = "fail" \/ np.second = "fail"

\* The browser had crashed, and the helper got its page all the same.
C24_CrashCured ==
    /\ hpc = "nav"
    /\ np.first = "fail"
    /\ np.relaunch = "ok"
    /\ np.outcome = "page"
    /\ tab = "open"

\* C25: called with limit = n > 0, the concurrent register_commenter_channels
\* registers at most n new channels: total_new never exceeds the limit.
C25_LimitBoundsNew ==
    limit > 0 => total_new <= limit

(***************************************************************************)
(* fetch_comment_threads_by_video_id (app/youtube_api/                     *)
(* fetch_comment_threads_by_video_id.py): the skip at its head, then one   *)
(* step per iteration of its loop, the step that leaves the loop carrying  *)
(* the writes and the return.                                              *)
(***************************************************************************)
LIKE_THRESHOLD == 10

MAX_CONSECUTIVE_LOW_LIKE_PAGES == 2

\* Pages a video's comments can have.
MaxCommentPages == 4

\* likeCount of a top-level comment; an item without one counts as 0.
LikeCounts == {0, 9, 10}

\* The items of a page, by their like counts.
PageItems == SUBSET LikeCounts

\* has_high_like
HasHighLike(items) == \E l \in items : l >= LIKE_THRESHOLD

\* Pages without a high-like comment at the end of the history h.
RECURSIVE TrailingLows(_)
TrailingLows(h) ==
    IF h = <<>> \/ h[Len(h)] THEN 0
    ELSE 1 + TrailingLows(SubSeq(h, 1, Len(h) - 1))

\* The counter after a page: one more for a page below the threshold, zero
\* after a page that reaches it.
LowPagesNoReset(c, high) == IF high THEN c ELSE c + 1

LowPages(c, high) == IF high THEN 0 ELSE c + 1

CommentInit ==
    /\ CrawlIdle
    /\ BatcherIdle
    /\ ManifestIdle
    /\ RegisterIdle
    /\ PoolIdle
    /\ TabIdle
    /\ fetcher = "comments"
    /\ dry_run \in BOOLEAN
    /\ max_api_calls \in {NoBound} \cup {{n} : n \in 1..MaxCommentPages}
    /\ page = 0
    /\ api_calls_made = 0
    /\ next_page_token = NoneV
    /\ fpc = "called"
    /\ raw_pages = {}
    /\ seen_pages = {}
    /\ trending_manifest = {}
    /\ store0 = << {}, {}, {} >>
    /\ consecutive_low_like_pages = 0
    /\ all_items = {}
    /\ liked_pages = <<>>
    /\ stop = "none"
    /\ comments_seen \in BOOLEAN
    /\ comments_stored = comments_seen

\* Lines 44-46: the video has its seen marker and this is no dry run.
CommentsSkip ==
    /\ fetcher = "comments"
    /\ fpc = "called"
    /\ IF ~dry_run /\ comments_seen
       THEN fpc' = "returned" /\ stop' = "seen"
       ELSE fpc' = "loop" /\ stop' = stop
    /\ UNCHANGED << outsideComment, fetcher, dry_run, max_api_calls, page,
                    api_calls_made, next_page_token,
                    consecutive_low_like_pages, all_items, liked_pages,
                    comments_seen, comments_stored >>

\* The two writes after the loop, unless dry_run.
CommentsWritten(left) ==
    IF left /\ ~dry_run
    THEN comments_seen' = TRUE /\ comments_stored' = TRUE
    ELSE UNCHANGED << comments_seen, comments_stored >>

\* Lines 58-60: the bound on API calls is reached.
CommentsAtBound ==
    /\ fetcher = "comments"
    /\ fpc = "loop"
    /\ BoundReached
    /\ fpc' = "returned"
    /\ stop' = "bound"
    /\ CommentsWritten(TRUE)
    /\ UNCHANGED << outsideComment, fetcher, dry_run, max_api_calls, page,
                    api_calls_made, next_page_token,
                    consecutive_low_like_pages, all_items, liked_pages >>

\* Lines 62-95: one page is requested; the request raises, or its items are
\* gathered, the counter of low-like pages is moved and the loop is left on
\* two low pages in a row or on a response without nextPageToken.
CommentsPage ==
    /\ fetcher = "comments"
    /\ fpc = "loop"
    /\ ~BoundReached
    /\ page' = page + 1
    /\ api_calls_made' = api_calls_made + 1
    /\ \E ok \in BOOLEAN, items \in PageItems, more \in BOOLEAN :
         /\ more => page + 1 < MaxCommentPages
         /\ IF ~ok
            THEN /\ fpc' = "returned"
                 /\ stop' = "error"
                 /\ CommentsWritten(FALSE)
                 /\ UNCHANGED << next_page_token, consecutive_low_like_pages,
                                 all_items, liked_pages >>
            ELSE LET high == HasHighLike(items)
                     c    == LowPages(consecutive_low_like_pages, high)
                     low2 == ~high /\ c >= MAX_CONSECUTIVE_LOW_LIKE_PAGES
                 IN  /\ all_items' = all_items \cup items
                     /\ liked_pages' = Append(liked_pages, high)
                     /\ consecutive_low_like_pages' = c
                     /\ next_page_token' =
                           IF low2 THEN next_page_token
                           ELSE IF more THEN "token" ELSE NoneV
                     /\ stop' = IF low2 THEN "low_likes"
                                ELSE IF ~more THEN "no_token" ELSE stop
                     /\ fpc' = IF low2 \/ ~more THEN "returned" ELSE "loop"
                     /\ CommentsWritten(low2 \/ ~more)
    /\ UNCHANGED << outsideComment, fetcher, dry_run, max_api_calls >>

CommentNext ==
    \/ CommentsSkip
    \/ CommentsAtBound
    \/ CommentsPage

CommentSpec == CommentInit /\ [][CommentNext]_vars

\* C26: the counter is the number of pages without a comment of 10 likes
\* or more at the end of the pages fetched so far (a page with one sets it
\* to zero); the fetch has stopped for low likes exactly when that number
\* is two, so it never requests a page after two such pages in a row, and
\* two of them separated by a page with a high-like comment leave it
\* running.
C26_StopsOnTwoLowPages ==
    /\ consecutive_low_like_pages = TrailingLows(liked_pages)
    /\ TrailingLows(liked_pages) <= MAX_CONSECUTIVE_LOW_LIKE_PAGES
    /\ stop = "low_likes"
       <=> TrailingLows(liked_pages) = MAX_CONSECUTIVE_LOW_LIKE_PAGES
    /\ stop = "low_likes" => fpc = "returned"

\* A low page, a high page and a low page were fetched and the loop goes on.
C26_LowHighLowGoesOn ==
    /\ liked_pages = << FALSE, TRUE, FALSE >>
    /\ fpc = "loop"
    /\ ~BoundReached

\* C27: no identifier is dequeued twice in a run, whatever the seed list and
\* the graph: the identifier a dequeue takes is not left waiting in the
\* queue, and a step adds an identifier to the queue only when it adds it to
\* the seen set for the first time.
C27_DequeuedOnce ==
    [][ /\ Len(queue') < Len(queue) => identifier' \notin Range(queue')
        /\ \A i \in Ids :
              Count(i, queue') > Count(i, queue)
              => i \notin seen /\ i \in seen' ]_vars


(***************************************************************************)
(* _Batcher (app/pipeline/comments/register_channels.py) called by         *)
(* coroutines of one event loop.  A coroutine runs without interruption    *)
(* from one await to the next: taking the free lock and the body up to     *)
(* `await asyncio.to_thread(batch.commit)` are one step, the commit's      *)
(* return and the release of the lock another.  An operation is the number *)
(* of the set call that passed it.                                         *)
(***************************************************************************)
\* Calls of set and flush in one run of the coroutines.
MaxBatcherCalls == 4

\* Operations whose set call has returned.
ReturnedOps == UNION {coros[c].sets : c \in Coroutines}

\* Batches being committed.
InFlight == UNION {coros[c].batch : c \in Coroutines}

\* Number of committed batches that hold the operation op.
TimesCommitted(op) ==
    Cardinality({i \in 1..Len(committed) : op \in committed[i]})

BatcherInit ==
    /\ CrawlIdle
    /\ ManifestIdle
    /\ RegisterIdle
    /\ PoolIdle
    /\ FetchIdle
    /\ TabIdle
    /\ CommentIdle
    /\ BatcherIdle

\* A coroutine calls set(doc_ref, data) and waits for the lock.
CallSet(c) ==
    /\ coros[c].pc = "idle"
    /\ calls < MaxBatcherCalls
    /\ calls' = calls + 1
    /\ coros' = [coros EXCEPT ![c] =
                    [@ EXCEPT !.pc = "acquire", !.kind = "set",
                              !.op = calls + 1, !.must = {}]]
    /\ UNCHANGED << outsideBatcher, _batch, _count, _lock, committed,
                    commit_failed >>

\* A coroutine calls flush() and waits for the lock.
CallFlush(c) ==
    /\ coros[c].pc = "idle"
    /\ calls < MaxBatcherCalls
    /\ calls' = calls + 1
    /\ coros' = [coros EXCEPT ![c] =
                    [@ EXCEPT !.pc = "acquire", !.kind = "flush", !.op = 0,
                              !.must = ReturnedOps]]
    /\ UNCHANGED << outsideBatcher, _batch, _count, _lock, committed,
                    commit_failed >>

\* set under the lock: stage the operation, count it, and at batch_size
\* enter _commit_locked; otherwise leave the lock and return.
EnterSet(c) ==
    /\ coros[c].pc = "acquire"
    /\ coros[c].kind = "set"
    /\ _lock = Unlocked
    /\ LET staged == _batch \cup {coros[c].op}
       IN  IF _count + 1 >= BatchSize
           THEN /\ _batch' = NewBatch(staged)
                /\ _count' = 0
                /\ _lock' = {c}
                /\ coros' = [coros EXCEPT ![c] =
                                [@ EXCEPT !.pc = "committing",
                                          !.batch = staged]]
           ELSE /\ _batch' = staged
                /\ _count' = _count + 1
                /\ _lock' = Unlocked
                /\ coros' = [coros EXCEPT ![c] =
                                [@ EXCEPT !.pc = "idle",
                                          !.sets = @ \cup {coros[c].op}]]
    /\ UNCHANGED << outsideBatcher, committed, calls, commit_failed >>

\* flush under the lock: enter _commit_locked when something is staged.
EnterFlush(c) ==
    /\ coros[c].pc = "acquire"
    /\ coros[c].kind = "flush"
    /\ _lock = Unlocked
    /\ IF _count > 0
       THEN /\ _batch' = NewBatch(_batch)
            /\ _count' = 0
            /\ _lock' = {c}
            /\ coros' = [coros EXCEPT ![c] =
                            [@ EXCEPT !.pc = "committing", !.batch = _batch]]
       ELSE /\ coros' = [coros EXCEPT ![c] = [@ EXCEPT !.pc = "idle"]]
            /\ UNCHANGED << _batch, _count, _lock >>
    /\ UNCHANGED << outsideBatcher, committed, calls, commit_failed >>

\* batch.commit() returns or raises in its thread; the lock is released and
\* the call returns, or raises what the commit raised.
CommitReturns(c) ==
    /\ coros[c].pc = "committing"
    /\ \E ok \in BOOLEAN :
         /\ committed' = IF ok THEN Append(committed, coros[c].batch)
                         ELSE committed
         /\ commit_failed' = (commit_failed \/ ~ok)
    /\ _lock' = Unlocked
    /\ coros' = [coros EXCEPT ![c] =
                    [@ EXCEPT !.pc = "idle", !.batch = {},
                              !.sets = IF coros[c].kind = "set"
                                       THEN @ \cup {coros[c].op} ELSE @]]
    /\ UNCHANGED << outsideBatcher, _batch, _count, calls >>

BatcherNext ==
    \/ \E c \in Coroutines : CallSet(c)
    \/ \E c \in Coroutines : CallFlush(c)
    \/ \E c \in Coroutines : EnterSet(c)
    \/ \E c \in Coroutines : EnterFlush(c)
    \/ \E c \in Coroutines : CommitReturns(c)

BatcherSpec == BatcherInit /\ [][BatcherNext]_vars

DriverNext ==
    \/ (rpc = "idle" /\ StartRun)
    \/ TakeFile
    \/ RegisterThread
    \/ IterateThreads
    \/ CompleteFile
    \/ EndRun
    \/ StopRun
    \/ OperatorClear

DriverSpec == RegisterInit /\ [][DriverNext]_vars

\* C29: a file in the stored manifest's completed list has every record the
\* driver registered from it committed: none of them is still staged in the
\* batcher, where the death of the process would lose it.  Stated for a
\* resuming run whose manifest reads succeeded: such a run takes no file
\* that was completed before it started.
C29_CompletedFileCommitted ==
    (resume /\ ~force /\ ~readFailed)
    => \A op \in _batch : op.file \notin Range(manifest.completed)

(***************************************************************************)
(* Crawls of a platform where the text "UC2" is only ever shown as a       *)
(* handle link "/@UC2": no page links to "/channel/UC2" and the seeds do   *)
(* not name it.                                                            *)
(***************************************************************************)
HandleGraphs ==
    { [ featured |-> [NoTiles EXCEPT ![UC1] = {THUC}, ![H1] = {THUC}],
        subs     |-> NoTiles ],
      [ featured |-> NoTiles,
        subs     |-> [NoTiles EXCEPT ![UC1] = {THUC}, ![H1] = {THUC}] ],
      [ featured |-> [NoTiles EXCEPT ![UC1] = {TH1, THUC}],
        subs     |-> [NoTiles EXCEPT ![H1] = {TUC1, THUC}] ] }

HandleInit ==
    /\ OthersIdle
    /\ use_api \in BOOLEAN
    /\ \E m \in LabelModes : is_bot = m[1] /\ bot_check_type = m[2]
    /\ \E s \in SeedLists : queue = s /\ seen = Range(s)
    /\ pc = "loop"
    /\ identifier = <<>>
    /\ cur = <<>>
    /\ batch = <<>>
    /\ subs = <<>>
    /\ channel \in ExistingStores
    /\ channel0 = channel
    /\ graph \in HandleGraphs
    /\ pending = EmptyColl
    /\ links = EmptyBag
    /\ item = Idle
    /\ gathered = {}
    /\ failedMidRun = FALSE
    /\ depth = [i \in Range(queue) |-> 0]

HandleSpec == HandleInit /\ [][Next]_vars

\* The text i is no seed and every link of the platform that carries it is
\* a handle link.
HandleOnly(i) ==
    /\ i \notin SeedIds
    /\ \A j \in Ids : \A t \in graph.featured[j] \cup graph.subs[j] :
          t.rest = i => t.prefix = "/@"

\* C30: an identifier that only handle links yielded is a handle for the
\* whole crawl, even when its text begins with "UC": while it is processed
\* its pages are visited through the "/@" URL, and the run creates no
\* "channel" document under it.
C30_HandleStaysHandle ==
    \A i \in Ids :
       HandleOnly(i)
       => /\ (pc \in InItem /\ item.raw = i) => item.url.prefix = "/@"
          /\ i \in DOMAIN channel => i \in DOMAIN channel0

=============================================================================
